---- MODULE Spec2Model ----
(***************************************************************************)
(* A model of deliverables/autonomous/issue-129/4ce1f56d838f/solution.py:  *)
(* main() creates the output directory, gathers one worker task per entry  *)
(* of TARGETS on the asyncio event loop; every worker off-loads the        *)
(* blocking fetch to the loop's default thread pool, and once the fetch    *)
(* returns it reads the clock and writes result_<ts>.json.                 *)
(*                                                                         *)
(* The filesystem and the network are taken to be healthy apart from the   *)
(* fetch itself: mkdir and write_text do not fail, and the wall clock does *)
(* not go backwards.                                                       *)
(***************************************************************************)
EXTENDS Integers, Sequences, FiniteSets, TLC

VARIABLES
    TARGETS,        \* the list of urls (line 8), fixed for the run
    responses,      \* per target: what the server does with the request
    cpu_count,      \* os.cpu_count() of the host (sizes the default executor)
    out_dir_exists, \* whether ./output exists
    clock,          \* int(time.time())
    files,          \* ts -> the record held by output/result_<ts>.json, if it exists
    last_writer,    \* ts -> the worker whose write_text on result_<ts>.json came last
    main_pc,        \* where main() / asyncio.run() stands
    task,           \* per target: the state of the worker task
    job,            \* per target: the state of the fetch in the executor
    queue,          \* the default executor's work queue: the items no thread has taken
    held,           \* per target: a pool thread has dequeued the item and not yet run or dropped it
    checked,        \* per target: the cancel of the worker's future was passed on to the work item
    content,        \* per target: the value of `content` in the worker, if assigned
    ret,            \* per target: the ts of the path the worker returned
    paths,          \* the list printed by line 29, if printed
    main_exc,       \* whether main() ended by an exception
    exit_status,    \* the exit status of the process, or Running
    fetches,        \* per target: how many times fetch was started
    writes          \* per target: how many times the worker called write_text

vars == <<TARGETS, responses, cpu_count, out_dir_exists, clock, files, last_writer,
          main_pc, task, job, queue, held, checked, content, ret, paths, main_exc,
          exit_status, fetches, writes>>

----------------------------------------------------------------------------
\* Bounds of the model.

MaxTargets == 2
MaxClock == 1
MaxCpuCount == 1
MaxTail == 1

\* Program constants.

PreviewLen == 2000
MinPoolThreads == 4
MaxPoolThreads == 32

\* An optional value is a sequence of length 0 or 1.
None == <<>>
Some(x) == <<x>>

\* What the server does with one request: a body, or no response (the fetch raises).
Fail == [ok |-> FALSE, body |-> <<>>]
Ok(b) == [ok |-> TRUE, body |-> b]

NoFile == None
NoContent == None
NotPrinted == None
NoTs == -1
Running == -1

Min(a, b) == IF a <= b THEN a ELSE b

----------------------------------------------------------------------------
\* fetch: bytes.decode("utf-8", errors="ignore")[:2000]

IsCont(x) == x \in 128..191

\* The length of the well-formed UTF-8 sequence that starts at b[i], 0 if none does.
SeqLenAt(b, i) ==
    LET n == Len(b)
        x == b[i]
    IN  IF x < 128 THEN 1
        ELSE IF x \in 194..223
            THEN IF i + 1 <= n /\ IsCont(b[i+1]) THEN 2 ELSE 0
        ELSE IF x \in 224..239
            THEN IF /\ i + 2 <= n
                    /\ b[i+1] \in (IF x = 224 THEN 160..191
                                   ELSE IF x = 237 THEN 128..159 ELSE 128..191)
                    /\ IsCont(b[i+2])
                 THEN 3 ELSE 0
        ELSE IF x \in 240..244
            THEN IF /\ i + 3 <= n
                    /\ b[i+1] \in (IF x = 240 THEN 144..191
                                   ELSE IF x = 244 THEN 128..143 ELSE 128..191)
                    /\ IsCont(b[i+2])
                    /\ IsCont(b[i+3])
                 THEN 4 ELSE 0
        ELSE 0

\* The code point of the well-formed sequence that starts at b[i].
CodePoint(b, i) ==
    LET k == SeqLenAt(b, i)
    IN  IF k = 1 THEN b[i]
        ELSE IF k = 2 THEN (b[i] - 192) * 64 + (b[i+1] - 128)
        ELSE IF k = 3 THEN (b[i] - 224) * 4096 + (b[i+1] - 128) * 64 + (b[i+2] - 128)
        ELSE (b[i] - 240) * 262144 + (b[i+1] - 128) * 4096
             + (b[i+2] - 128) * 64 + (b[i+3] - 128)

\* decode("utf-8", errors="ignore"): every well-formed sequence yields its
\* character, every other byte is dropped.
decode(b) ==
    LET idx == [i \in 1..Len(b) |-> i]
        starts == SelectSeq(idx, LAMBDA i : SeqLenAt(b, i) > 0)
    IN  [k \in 1..Len(starts) |-> CodePoint(b, starts[k])]

\* s[:n]
Take(s, n) == SubSeq(s, 1, Min(n, Len(s)))

fetch_bytes(body) == decode(Take(body, PreviewLen))

fetch(body) == Take(decode(body), PreviewLen)

----------------------------------------------------------------------------
\* The run's inputs.

URLS == {"https://a.test/", "https://b.test/"}

\* "hi", and "e-acute" followed by an undecodable byte and "A".
Bodies == {<<104, 105>>, <<195, 169, 255, 65>>}

N == Len(TARGETS)
Workers == 1..N

\* ThreadPoolExecutor's default max_workers, the pool run_in_executor(None, ...) uses.
max_workers == Min(MaxPoolThreads, cpu_count + MinPoolThreads)

InFlight == Cardinality({i \in Workers : job[i] = "running"})

\* What the worker receives from `await loop.run_in_executor(None, fetch, url)`.
FetchValue(i) == fetch(responses[i].body)

\* The dict of line 22 as worker i serialises it.
RecordMixed(i) == [url |-> TARGETS[i], preview |-> FetchValue(1)]

Record(i) == [url |-> TARGETS[i], preview |-> FetchValue(i)]

\* Path.write_text: creates the file or replaces what it holds.
write_exclusive(fs, ts, rec) == IF fs[ts] = NoFile THEN [fs EXCEPT ![ts] = Some(rec)] ELSE fs

write_text(fs, ts, rec) == [fs EXCEPT ![ts] = Some(rec)]

\* mkdir(parents=True, exist_ok=True): the directory exists afterwards.
mkdir_skipped(exists) == exists

mkdir(exists) == TRUE

\* line 28 runs after line 27.
GatherEarly == main_pc \in {"start", "mkdir"}

GatherEnabled == main_pc = "mkdir"

\* The pool threads that hold a work item: dequeued, or inside fetch.
Busy == Cardinality({i \in Workers : held[i] \/ job[i] = "running"})

\* The pool has at most max_workers threads: one is free (or can still be
\* started) to dequeue an item only below that number.
PoolUnbounded == TRUE

PoolHasRoom == Busy < max_workers

\* An exception of fetch ends the work item; nothing starts the fetch again.
AfterFetchRetry == "running"

AfterFetchError == "err"

\* The await of line 19 re-raises the exception of fetch in the worker.
RaisesNever(i) == FALSE

Raises(i) == job[i] = "err"

\* The list asyncio.gather returns: the i-th entry is the i-th awaitable's result.
RECURSIVE SortedByTs(_, _)
SortedByTs(S, t) ==
    IF S = {} THEN <<>>
    ELSE LET m == CHOOSE i \in S : \A j \in S : t[i] < t[j] \/ (t[i] = t[j] /\ i <= j)
         IN  <<t[m]>> \o SortedByTs(S \ {m}, t)

GatherCompletionOrder == SortedByTs(Workers, ret)

GatherResult == [i \in Workers |-> ret[i]]

\* A task whose cancellation asyncio.run requested ends cancelled at its next
\* step: CancelledError is raised at the await of line 19.
TaskShielded(s) == IF s \in {"created", "awaiting"} THEN "done" ELSE s

TaskAfterCancel(s) == IF s \in {"created", "awaiting"} THEN "cancelled" ELSE s

----------------------------------------------------------------------------
\* Initial states.

InitState(targets, resp, cpus, dir, now) ==
    /\ TARGETS = targets
    /\ responses = resp
    /\ cpu_count = cpus
    /\ out_dir_exists = dir
    /\ clock = now
    /\ files = [t \in 0..MaxClock |-> NoFile]
    /\ last_writer = [t \in 0..MaxClock |-> 0]
    /\ main_pc = "start"
    /\ task = [i \in 1..Len(targets) |-> "none"]
    /\ job = [i \in 1..Len(targets) |-> "none"]
    /\ queue = <<>>
    /\ held = [i \in 1..Len(targets) |-> FALSE]
    /\ checked = [i \in 1..Len(targets) |-> FALSE]
    /\ content = [i \in 1..Len(targets) |-> NoContent]
    /\ ret = [i \in 1..Len(targets) |-> NoTs]
    /\ paths = NotPrinted
    /\ main_exc = FALSE
    /\ exit_status = Running
    /\ fetches = [i \in 1..Len(targets) |-> 0]
    /\ writes = [i \in 1..Len(targets) |-> 0]

\* Short target lists with every combination of urls and responses.
InitRun ==
    \E n \in 0..MaxTargets :
      \E targets \in [1..n -> URLS], resp \in [1..n -> {Ok(b) : b \in Bodies} \cup {Fail}],
         cpus \in 1..MaxCpuCount, dir \in BOOLEAN :
        InitState(targets, resp, cpus, dir, 0)

\* One target list longer than the default executor has threads, for each
\* number of CPUs; the responses are all alike, and on the one-CPU host the
\* first or the last target may fail instead; the run takes place within one
\* second.
InitPool ==
    \E cpus \in 1..MaxCpuCount :
      LET n == Min(MaxPoolThreads, cpus + MinPoolThreads) + 1
          b == CHOOSE x \in Bodies : TRUE
          dir == TRUE
      IN  \E k \in (IF cpus = 1 THEN {0, 1, n} ELSE {0}) :
            InitState([i \in 1..n |-> CHOOSE u \in URLS : TRUE],
                      [i \in 1..n |-> IF i = k THEN Fail ELSE Ok(b)], cpus, dir, MaxClock)

\* Bodies around the preview's length: `pad` copies of a unit of one character
\* (one, two or three bytes, or an undecodable byte), then a short tail; one
\* target, fetched within one second.
Units == {<<97>>, <<195, 169>>, <<226, 130, 172>>, <<255>>}
TailBytes == {97, 195, 169, 255}
Pads == {PreviewLen - 2, PreviewLen - 1, PreviewLen, PreviewLen + 1}

Repeat(unit, k) ==
    [j \in 1..(k * Len(unit)) |-> unit[((j - 1) % Len(unit)) + 1]]

InitBig ==
    \E unit \in Units, pad \in Pads, len \in 0..MaxTail :
      \E tail \in [1..len -> TailBytes] :
        InitState(<<CHOOSE u \in URLS : TRUE>>, <<Ok(Repeat(unit, pad) \o tail)>>, 1, TRUE, MaxClock)

Init == InitRun \/ InitPool \/ InitBig

----------------------------------------------------------------------------
\* main, lines 26-27.
MainMkdir ==
    /\ main_pc = "start"
    /\ out_dir_exists' = mkdir(out_dir_exists)
    /\ main_pc' = "mkdir"
    /\ UNCHANGED <<TARGETS, responses, cpu_count, clock, files, last_writer, task, job,
                   queue, held, checked, content, ret, paths, main_exc, exit_status,
                   fetches, writes>>

\* main, line 28: gather wraps every worker coroutine in a task; main awaits.
MainGather ==
    /\ GatherEnabled
    /\ task' = [i \in Workers |-> "created"]
    /\ main_pc' = "gather"
    /\ UNCHANGED <<TARGETS, responses, cpu_count, out_dir_exists, clock, files, last_writer,
                   job, queue, held, checked, content, ret, paths, main_exc, exit_status,
                   fetches, writes>>

\* worker, lines 18-19: the first step of a task, run in the order of creation;
\* run_in_executor puts the work item on the default executor's queue (and
\* starts or wakes a pool thread); the task suspends. No fetch has started yet.
WorkerStart(i) ==
    /\ task[i] = "created"
    /\ \A j \in 1..(i-1) : task[j] # "created"
    /\ task' = [task EXCEPT ![i] = "awaiting"]
    /\ job' = [job EXCEPT ![i] = "queued"]
    /\ queue' = Append(queue, i)
    /\ UNCHANGED <<TARGETS, responses, cpu_count, out_dir_exists, clock, files, last_writer,
                   main_pc, held, checked, content, ret, paths, main_exc, exit_status,
                   fetches, writes>>

\* A free pool thread takes the oldest work item off the executor's queue. The
\* item's future is pending or already cancelled: the fetch has not started.
ThreadDequeue(i) ==
    /\ queue # <<>>
    /\ i = Head(queue)
    /\ PoolHasRoom
    /\ queue' = Tail(queue)
    /\ held' = [held EXCEPT ![i] = TRUE]
    /\ UNCHANGED <<TARGETS, responses, cpu_count, out_dir_exists, clock, files, last_writer,
                   main_pc, task, job, checked, content, ret, paths, main_exc, exit_status,
                   fetches, writes>>

\* The thread that holds item i marks its future running and enters fetch
\* (lines 12-14), in its own time: threads that dequeued in queue order may
\* enter fetch in any order. From here on the item cannot be cancelled.
FetchEnter(i) ==
    /\ held[i]
    /\ job[i] = "queued"
    /\ job' = [job EXCEPT ![i] = "running"]
    /\ held' = [held EXCEPT ![i] = FALSE]
    /\ fetches' = [fetches EXCEPT ![i] = @ + 1]
    /\ UNCHANGED <<TARGETS, responses, cpu_count, out_dir_exists, clock, files, last_writer,
                   main_pc, task, queue, checked, content, ret, paths, main_exc,
                   exit_status, writes>>

\* The thread that holds item i finds its future cancelled and drops the item
\* without calling fetch.
ThreadDrop(i) ==
    /\ held[i]
    /\ job[i] = "cancelled"
    /\ held' = [held EXCEPT ![i] = FALSE]
    /\ UNCHANGED <<TARGETS, responses, cpu_count, out_dir_exists, clock, files, last_writer,
                   main_pc, task, job, queue, checked, content, ret, paths, main_exc,
                   exit_status, fetches, writes>>

\* fetch, lines 12-15, in a pool thread: it returns the preview or raises.
FetchReturn(i) ==
    /\ job[i] = "running"
    /\ \/ /\ responses[i].ok
          /\ job' = [job EXCEPT ![i] = "ok"]
          /\ UNCHANGED fetches
       \/ /\ ~responses[i].ok
          /\ job' = [job EXCEPT ![i] = AfterFetchError]
          /\ fetches' = [fetches EXCEPT ![i] = IF AfterFetchError = "running" THEN @ + 1 ELSE @]
    /\ UNCHANGED <<TARGETS, responses, cpu_count, out_dir_exists, clock, files, last_writer,
                   main_pc, task, queue, held, checked, content, ret, paths, main_exc,
                   exit_status, writes>>

\* worker, lines 19-23: the task resumes once its fetch has ended and every task
\* has taken its first step; there is no await between the clock read and the
\* return, so the rest of the worker is one step of the event loop.
WorkerResume(i) ==
    /\ task[i] = "awaiting"
    /\ job[i] \in {"ok", "err"}
    /\ \A j \in Workers : task[j] # "created"
    /\ main_pc \in {"gather", "raised"}
    /\ \/ /\ Raises(i)
          /\ task' = [task EXCEPT ![i] = "failed"]
          /\ UNCHANGED <<content, files, last_writer, ret, writes>>
       \/ /\ ~Raises(i)
          /\ LET ts == clock
             IN  /\ content' = [content EXCEPT ![i] = Some(FetchValue(i))]
                 /\ files' = write_text(files, ts, Record(i))
                 /\ last_writer' = [last_writer EXCEPT ![ts] = i]
                 /\ ret' = [ret EXCEPT ![i] = ts]
                 /\ writes' = [writes EXCEPT ![i] = @ + 1]
                 /\ task' = [task EXCEPT ![i] = "done"]
    /\ UNCHANGED <<TARGETS, responses, cpu_count, out_dir_exists, clock, main_pc, job,
                   queue, held, checked, paths, main_exc, exit_status, fetches>>

\* main, lines 28-29: gather's future is done when every task returned, or as
\* soon as one task raised; main prints the list or raises.
MainResume ==
    /\ main_pc = "gather"
    /\ \/ /\ \A i \in Workers : task[i] = "done"
          /\ paths' = Some(GatherResult)
          /\ main_pc' = "returned"
          /\ UNCHANGED main_exc
       \/ /\ \E i \in Workers : task[i] = "failed"
          /\ main_exc' = TRUE
          /\ main_pc' = "raised"
          /\ UNCHANGED paths
    /\ UNCHANGED <<TARGETS, responses, cpu_count, out_dir_exists, clock, files, last_writer,
                   task, job, queue, held, checked, content, ret, exit_status, fetches,
                   writes>>

\* asyncio.run, line 32: once main has ended the runner calls cancel() on every
\* task that is not done. That only requests the cancellation: from here on no
\* worker resumes line 20; each task ends, and each work item is cancelled or
\* not, in later steps of the event loop, while the pool threads go on.
RunnerCancel ==
    /\ main_pc \in {"returned", "raised"}
    /\ main_pc' = "closing"
    /\ UNCHANGED <<TARGETS, responses, cpu_count, out_dir_exists, clock, files, last_writer,
                   task, job, queue, held, checked, content, ret, paths, main_exc,
                   exit_status, fetches, writes>>

\* The event loop passes the cancel of worker i's future on to its work item:
\* the item is cancelled if no thread has entered its fetch yet, whether it is
\* in the queue or held by a thread; a fetch already entered is not touched.
\* The loop runs this right before the task's own step, so no other task's
\* cancel is handled in between.
JobCancel(i) ==
    /\ main_pc = "closing"
    /\ task[i] = "awaiting"
    /\ ~checked[i]
    /\ \A j \in Workers : ~(checked[j] /\ task[j] = "awaiting")
    /\ checked' = [checked EXCEPT ![i] = TRUE]
    /\ job' = [job EXCEPT ![i] = IF @ = "queued" THEN "cancelled" ELSE @]
    /\ UNCHANGED <<TARGETS, responses, cpu_count, out_dir_exists, clock, files, last_writer,
                   main_pc, task, queue, held, content, ret, paths, main_exc, exit_status,
                   fetches, writes>>

\* The task of worker i takes the step in which CancelledError is raised at
\* line 19: the worker ends without reading the clock or writing.
TaskCancelled(i) ==
    /\ main_pc = "closing"
    /\ task[i] = "awaiting"
    /\ checked[i]
    /\ task' = [task EXCEPT ![i] = TaskAfterCancel(@)]
    /\ UNCHANGED <<TARGETS, responses, cpu_count, out_dir_exists, clock, files, last_writer,
                   main_pc, job, queue, held, checked, content, ret, paths, main_exc,
                   exit_status, fetches, writes>>

\* asyncio.run, line 32: the runner waits for the cancelled tasks to end, then
\* joins the executor's threads (which first empty the queue), then the process
\* ends: status 0, or 1 with the traceback of main's exception.
ProcessExit ==
    /\ main_pc = "closing"
    /\ \A i \in Workers : task[i] \in {"done", "failed", "cancelled"}
    /\ queue = <<>>
    /\ \A i \in Workers : ~held[i] /\ job[i] # "running"
    /\ main_pc' = "exited"
    /\ exit_status' = IF main_exc THEN 1 ELSE 0
    /\ UNCHANGED <<TARGETS, responses, cpu_count, out_dir_exists, clock, files, last_writer,
                   task, job, queue, held, checked, content, ret, paths, main_exc,
                   fetches, writes>>

\* time.time() moves on to the next whole second (while a worker may yet read it).
Tick ==
    /\ clock < MaxClock
    /\ main_pc \in {"gather", "raised"}
    /\ clock' = clock + 1
    /\ UNCHANGED <<TARGETS, responses, cpu_count, out_dir_exists, files, last_writer,
                   main_pc, task, job, queue, held, checked, content, ret, paths,
                   main_exc, exit_status, fetches, writes>>

Next ==
    \/ MainMkdir
    \/ MainGather
    \/ \E i \in Workers : WorkerStart(i)
    \/ \E i \in Workers : ThreadDequeue(i)
    \/ \E i \in Workers : FetchEnter(i)
    \/ \E i \in Workers : ThreadDrop(i)
    \/ \E i \in Workers : FetchReturn(i)
    \/ \E i \in Workers : WorkerResume(i)
    \/ MainResume
    \/ RunnerCancel
    \/ \E i \in Workers : JobCancel(i)
    \/ \E i \in Workers : TaskCancelled(i)
    \/ ProcessExit
    \/ Tick

Spec == Init /\ [][Next]_vars

----------------------------------------------------------------------------
\* Helpers of the properties.

Settled(i) == task[i] \in {"done", "failed", "cancelled"}
Printed == paths # NotPrinted
FilesOnDisk == {t \in DOMAIN files : files[t] # NoFile}
DoneWorkers == {i \in Workers : task[i] = "done"}

----------------------------------------------------------------------------
\* C1: once main has printed the list, it has one entry per target and its i-th
\* entry is the path worker i wrote and returned, whatever the order in which
\* the workers finished.
C1_OrderPreserved ==
    Printed =>
        /\ Len(paths[1]) = N
        /\ \A i \in Workers :
             /\ task[i] = "done"
             /\ paths[1][i] = ret[i]
             /\ files[ret[i]] # NoFile

\* A printed list of a run whose second worker finished a second before its first.
C1_Witness ==
    /\ Printed
    /\ N >= 2
    /\ ret[2] < ret[1]
    /\ paths[1] = <<ret[1], ret[2]>>

\* C2: a worker whose fetch failed writes no file, nothing is printed, the
\* process cannot end with status 0, and no file holds anything but the record
\* of a worker whose fetch succeeded (no placeholder).
C2_FetchFailureFailsRun ==
    /\ \A i \in Workers :
         job[i] = "err" =>
            /\ writes[i] = 0
            /\ content[i] = NoContent
            /\ ret[i] = NoTs
            /\ ~Printed
            /\ exit_status # 0
            /\ (main_pc = "exited" => exit_status = 1 /\ main_exc)
    /\ \A t \in FilesOnDisk :
         /\ last_writer[t] \in Workers
         /\ job[last_writer[t]] = "ok"
         /\ responses[last_writer[t]].ok

\* A run that ended with status 1 after a fetch failed, another worker having written.
C2_Witness ==
    /\ main_pc = "exited"
    /\ exit_status = 1
    /\ \E i, j \in Workers : job[i] = "err" /\ task[i] = "failed" /\ writes[j] = 1

\* C3: the preview a worker received, and the preview in the file it wrote, has
\* at most 2000 characters and is the first min(2000, length) characters of the
\* leniently decoded body.
C3_PreviewTruncated ==
    \A i \in Workers :
        content[i] # NoContent =>
            LET d == decode(responses[i].body)
                pv == content[i][1]
            IN  /\ Len(pv) <= PreviewLen
                /\ Len(pv) = Min(PreviewLen, Len(d))
                /\ \A k \in 1..Len(pv) : pv[k] = d[k]
                /\ (ret[i] # NoTs /\ last_writer[ret[i]] = i =>
                        files[ret[i]] = Some([url |-> TARGETS[i], preview |-> pv]))

\* A written preview of exactly 2000 characters cut from a longer body whose
\* characters take more than one byte.
C3_Witness ==
    \E i \in Workers :
        /\ content[i] # NoContent
        /\ Len(content[i][1]) = PreviewLen
        /\ Len(decode(responses[i].body)) > PreviewLen
        /\ Len(responses[i].body) > Len(decode(responses[i].body))
        /\ ret[i] # NoTs
        /\ files[ret[i]] # NoFile

\* C4: two workers that read the same second return the same path, the file
\* holds the record of the one that wrote last, both are done (no error), and
\* there are fewer files than workers that wrote; a printed list names the path
\* twice.
C4_CollisionOverwrites ==
    \A i, j \in DoneWorkers :
        (i # j /\ ret[i] = ret[j]) =>
            /\ last_writer[ret[i]] \in {k \in DoneWorkers : ret[k] = ret[i]}
            /\ files[ret[i]] = Some(Record(last_writer[ret[i]]))
            /\ Cardinality(FilesOnDisk) < Cardinality(DoneWorkers)
            /\ (Printed => paths[1][i] = paths[1][j])
            /\ ~(main_pc = "exited" /\ \A k \in Workers : task[k] = "done") \/ exit_status = 0

\* A successful run of two targets with different records that left one file,
\* holding the record of the second.
C4_Witness ==
    /\ main_pc = "exited"
    /\ exit_status = 0
    /\ N = 2
    /\ ret[1] = ret[2]
    /\ paths = Some(<<ret[1], ret[1]>>)
    /\ Record(1) # Record(2)
    /\ last_writer[ret[1]] = 2
    /\ files[ret[1]] = Some(Record(2))
    /\ Cardinality(FilesOnDisk) = 1

\* C5: with an empty target list nothing is fetched or written, main does not
\* raise, and once main has returned the directory exists and the printed list
\* is empty; the process ends with status 0.
C5_EmptyTargets ==
    N = 0 =>
        /\ FilesOnDisk = {}
        /\ ~main_exc
        /\ main_pc # "raised"
        /\ exit_status \in {Running, 0}
        /\ (main_pc = "gather" => ENABLED MainResume)
        /\ (main_pc \in {"returned", "closing", "exited"} =>
                out_dir_exists /\ paths = Some(<<>>))
        /\ (main_pc = "exited" => exit_status = 0)

\* A finished run of the empty list in a directory the run had to find or create.
C5_Witness ==
    /\ N = 0
    /\ main_pc = "exited"
    /\ exit_status = 0
    /\ paths = Some(<<>>)
    /\ out_dir_exists

\* C6 as stated: once the run has failed, every worker has written its file or
\* failed, none was cancelled, and every target whose fetch succeeds has its file.
C6_Original ==
    main_exc =>
        \A i \in Workers :
            /\ task[i] \in {"done", "failed"}
            /\ (responses[i].ok => writes[i] = 1)

\* C6 as amended: main raises only after a worker failed; the process ends only
\* after every worker has settled (written, failed or been cancelled), no fetch
\* is running and no work item is left with the pool; workers are cancelled
\* only in a failed run, after the runner's request; a worker that was not done
\* at the request has written nothing, whatever became of its fetch; a
\* cancelled work item's fetch was never entered; and the files of the workers
\* that wrote remain.
C6_FailureCancelsPending ==
    /\ main_exc => \E i \in Workers : task[i] = "failed"
    /\ main_pc = "exited" =>
          /\ queue = <<>>
          /\ \A i \in Workers :
                Settled(i) /\ job[i] \notin {"queued", "running"} /\ ~held[i]
    /\ \A i \in Workers :
         /\ task[i] = "cancelled" =>
               main_exc /\ main_pc \in {"closing", "exited"} /\ writes[i] = 0 /\ ret[i] = NoTs
         /\ (main_pc \in {"closing", "exited"} /\ task[i] \notin {"done", "failed"}) =>
               main_exc /\ task[i] \in {"awaiting", "cancelled"} /\ writes[i] = 0
         /\ job[i] = "cancelled" =>
               /\ main_exc
               /\ checked[i]
               /\ fetches[i] = 0
               /\ task[i] \in {"awaiting", "cancelled"}
         /\ task[i] = "done" => ret[i] # NoTs /\ files[ret[i]] # NoFile

\* A failed run that ended with a worker cancelled although its fetch succeeded,
\* beside a worker that had written its file.
C6_Witness ==
    /\ main_pc = "exited"
    /\ exit_status = 1
    /\ \E i, j \in Workers :
         /\ task[i] = "cancelled" /\ job[i] = "ok" /\ writes[i] = 0
         /\ task[j] = "done" /\ files[ret[j]] # NoFile

\* Whether a pool thread can take a step now without any fetch ending: dequeue
\* an item, enter the fetch it holds, or drop a cancelled item it holds.
PickEnabled ==
    ENABLED (\E i \in Workers : ThreadDequeue(i) \/ FetchEnter(i) \/ ThreadDrop(i))

\* C7 as stated: no fetch waits for another fetch to finish: whenever a fetch
\* has been handed over and not started, a thread can start one at once; and
\* nothing but the number of targets limits the fetches in flight.
C7_Original ==
    /\ InFlight <= N
    /\ (\E i \in Workers : job[i] = "queued") => PickEnabled

\* C7 as amended: at most min(N, max_workers) fetches are in flight; a fetch
\* that was handed over has to wait for a running fetch to end only when
\* max_workers fetches are in flight, which takes a list longer than the pool.
C7_PoolBoundsFetches ==
    /\ InFlight <= Min(N, max_workers)
    /\ Busy <= Min(N, max_workers)
    /\ ((\E i \in Workers : job[i] = "queued") /\ ~PickEnabled)
          => InFlight = max_workers /\ N > max_workers

\* Every pool thread busy and a fetch waiting in the queue that no thread can take.
C7_Witness ==
    /\ N > max_workers
    /\ InFlight = max_workers
    /\ ~PickEnabled
    /\ \E i \in Workers : job[i] = "queued" /\ task[i] = "awaiting" /\ fetches[i] = 0

\* C8: the output directory exists from main's mkdir on: whenever a worker task
\* exists, a fetch was started or a file was written, and at every later point
\* of the run.
C8_DirBeforeFetch ==
    /\ main_pc # "start" => out_dir_exists
    /\ \A i \in Workers :
         (task[i] # "none" \/ job[i] # "none" \/ fetches[i] > 0 \/ writes[i] > 0)
            => out_dir_exists
    /\ FilesOnDisk # {} => out_dir_exists

\* A fetch in flight while another worker has written its file.
C8_Witness ==
    /\ out_dir_exists
    /\ InFlight > 0
    /\ FilesOnDisk # {}

\* C9: every target is fetched at most once and written at most once, a write
\* follows the successful end of the worker's own fetch, and in a successful
\* run every target has exactly one fetch and one write.
C9_NoRetry ==
    \A i \in Workers :
        /\ fetches[i] <= 1
        /\ writes[i] <= 1
        /\ (writes[i] = 1 => fetches[i] = 1 /\ job[i] = "ok" /\ responses[i].ok)
        /\ (job[i] \in {"running", "ok", "err"} => fetches[i] = 1)
        /\ (Printed => fetches[i] = 1 /\ writes[i] = 1)

\* A failed fetch that was not started again, in a run that has ended.
C9_Witness ==
    /\ main_pc = "exited"
    /\ \E i, j \in Workers :
         /\ job[i] = "err" /\ fetches[i] = 1 /\ writes[i] = 0
         /\ fetches[j] = 1 /\ writes[j] = 1

\* C10: every file holds the whole record of the one worker that wrote it last:
\* that worker's url with that worker's preview.
C10_FilesWhole ==
    \A t \in FilesOnDisk :
        LET w == last_writer[t]
        IN  /\ w \in DoneWorkers
            /\ ret[w] = t
            /\ content[w] # NoContent
            /\ files[t] = Some([url |-> TARGETS[w], preview |-> content[w][1]])

\* Two workers with different urls and previews wrote the same file while the
\* run was still going on.
C10_Witness ==
    /\ main_pc = "gather"
    /\ \E i, j \in DoneWorkers :
         /\ i < j
         /\ ret[i] = ret[j]
         /\ TARGETS[i] # TARGETS[j]
         /\ content[i] # content[j]
         /\ last_writer[ret[i]] = i
         /\ files[ret[i]] = Some([url |-> TARGETS[i], preview |-> content[i][1]])

====
